---- MODULE Spec2Model ----
(***************************************************************************)
(* NetworkProcessor (src/net/stack_manager.rs): the periodic update() of    *)
(* the network stack integration layer.  One call of update() is modelled   *)
(* statement by statement; the collaborators (clock, stack, phy) are        *)
(* external and answer nondeterministically.                                *)
(***************************************************************************)
EXTENDS Naturals, Sequences, FiniteSets

\* Number of update() calls explored in one run.
MaxTicks == 6
\* Largest value the clock's current_ms() answers with.
MaxTime == 1

VARIABLES
    network_was_reset,  \* the struct field (line 9)
    pc,                 \* position inside update(), "idle" between calls
    now,                \* value returned by clock.current_ms() in this call
    poll_arg,           \* timestamp handed to stack.poll in this call
    poll_ret,           \* what stack.poll returned in this call
    result,             \* the local `result` of update()
    link,               \* what phy.poll_link() returned in this call
    entry_flag,         \* network_was_reset when this call began
    calls,              \* collaborator calls made so far by this call, in order
    hist                \* one record per completed call of update()

vars == <<network_was_reset, pc, now, poll_arg, poll_ret, result, link,
          entry_flag, calls, hist>>

\* Result<bool, Error> of stack.poll: Ok(true), Ok(false), Err(_).
PollOutcomes == {"OkTrue", "OkFalse", "Err"}

\* enum UpdateState, as far as update() constructs it.
UpdateState == {"Updated", "NoChange"}

\* Mutation: the Err arm reports NoChange.
PollToStatus_ErrNoChange(o) ==
    CASE o = "OkTrue"  -> "Updated"
      [] o = "OkFalse" -> "NoChange"
      [] o = "Err"     -> "NoChange"

\* The match on the poll result (lines 19-26): the value bound to `result`.
PollToStatus(o) ==
    CASE o = "OkTrue"  -> "Updated"
      [] o = "OkFalse" -> "NoChange"
      [] o = "Err"     -> "Updated"

\* Mutation: the Err arm logs nothing.
PollLog_Silent(o) == <<>>

\* The log::info! of the Err arm (lines 22-23): the calls the match adds.
PollLog(o) == IF o = "Err" THEN <<"log">> ELSE <<>>

\* Mutation: the guard `if !self.network_was_reset` is dropped.
LinkArm_NoGuard(l, flag) ==
    IF l THEN "present" ELSE "absent_armed"

\* Mutation: the polarity of poll_link() is taken the wrong way round.
LinkArm_Inverted(l, flag) ==
    IF ~l THEN "present"
    ELSE IF ~flag THEN "absent_armed"
    ELSE "other"

\* Mutation: once the flag is set the match no longer looks at the link.
LinkArm_StuckFired(l, flag) ==
    IF flag THEN "other"
    ELSE IF l THEN "present"
    ELSE "absent_armed"

\* The match on phy.poll_link() (lines 30-40): which arm is taken.
LinkArm(l, flag) ==
    IF l THEN "present"
    ELSE IF ~flag THEN "absent_armed"
    ELSE "other"

\* Mutation: the flag is constructed true.
new_Fired == [network_was_reset |-> TRUE]

\* NetworkProcessor::new (lines 13-15).
new == [network_was_reset |-> FALSE]

Init ==
    /\ network_was_reset = new.network_was_reset
    /\ pc = "idle"
    /\ now = 0
    /\ poll_arg = 0
    /\ poll_ret = "none"
    /\ result = "none"
    /\ link = TRUE
    /\ entry_flag = FALSE
    /\ calls = <<>>
    /\ hist = <<>>

\* The caller invokes update() (line 17).
Begin ==
    /\ pc = "idle"
    /\ Len(hist) < MaxTicks
    /\ pc' = "clock"
    /\ entry_flag' = network_was_reset
    /\ calls' = <<>>
    /\ UNCHANGED <<network_was_reset, now, poll_arg, poll_ret, result, link, hist>>

\* self.clock.current_ms() (line 19, argument evaluation).
CurrentMs ==
    /\ pc = "clock"
    /\ \E t \in 0..MaxTime : now' = t
    /\ calls' = Append(calls, "current_ms")
    /\ pc' = "poll"
    /\ UNCHANGED <<network_was_reset, poll_arg, poll_ret, result, link, entry_flag, hist>>

\* Mutation: stack.poll is handed a constant instead of the time just read.
StackPoll_StaleTime ==
    /\ pc = "poll"
    /\ poll_arg' = 0
    /\ \E o \in PollOutcomes : poll_ret' = o
    /\ calls' = Append(calls, "poll")
    /\ pc' = "match_poll"
    /\ UNCHANGED <<network_was_reset, now, result, link, entry_flag, hist>>

\* self.stack.poll(..) (line 19).
StackPoll ==
    /\ pc = "poll"
    /\ poll_arg' = now
    /\ \E o \in PollOutcomes : poll_ret' = o
    /\ calls' = Append(calls, "poll")
    /\ pc' = "match_poll"
    /\ UNCHANGED <<network_was_reset, now, result, link, entry_flag, hist>>

\* Mutation: a failed poll is retried within the same call.
MatchPoll_RetryOnErr ==
    /\ pc = "match_poll"
    /\ result' = PollToStatus(poll_ret)
    /\ calls' = calls \o PollLog(poll_ret)
    /\ pc' = IF poll_ret = "Err" THEN "poll" ELSE "link"
    /\ UNCHANGED <<network_was_reset, now, poll_arg, poll_ret, link, entry_flag, hist>>

\* let result = match .. (lines 19-26).
MatchPoll ==
    /\ pc = "match_poll"
    /\ result' = PollToStatus(poll_ret)
    /\ calls' = calls \o PollLog(poll_ret)
    /\ pc' = "link"
    /\ UNCHANGED <<network_was_reset, now, poll_arg, poll_ret, link, entry_flag, hist>>

\* self.phy.poll_link() (line 30).
PollLink ==
    /\ pc = "link"
    /\ \E l \in BOOLEAN : link' = l
    /\ calls' = Append(calls, "poll_link")
    /\ pc' = "match_link"
    /\ UNCHANGED <<network_was_reset, now, poll_arg, poll_ret, result, entry_flag, hist>>

\* Mutation: the present arm does not clear the flag.
LinkPresent_NoRearm ==
    /\ pc = "match_link"
    /\ LinkArm(link, network_was_reset) = "present"
    /\ pc' = "ret"
    /\ UNCHANGED <<network_was_reset, now, poll_arg, poll_ret, result, link,
                   entry_flag, calls, hist>>

\* true => self.network_was_reset = false (line 31).
LinkPresent ==
    /\ pc = "match_link"
    /\ LinkArm(link, network_was_reset) = "present"
    /\ network_was_reset' = FALSE
    /\ pc' = "ret"
    /\ UNCHANGED <<now, poll_arg, poll_ret, result, link, entry_flag, calls, hist>>

\* Mutation: the guarded arm calls the reset but does not set the flag.
LinkAbsentArmed_NoSet ==
    /\ pc = "match_link"
    /\ LinkArm(link, network_was_reset) = "absent_armed"
    /\ pc' = "reset"
    /\ UNCHANGED <<network_was_reset, now, poll_arg, poll_ret, result, link,
                   entry_flag, calls, hist>>

\* false if !self.network_was_reset => { self.network_was_reset = true; (lines 35-36).
LinkAbsentArmed ==
    /\ pc = "match_link"
    /\ LinkArm(link, network_was_reset) = "absent_armed"
    /\ network_was_reset' = TRUE
    /\ pc' = "reset"
    /\ UNCHANGED <<now, poll_arg, poll_ret, result, link, entry_flag, calls, hist>>

\* Mutation: the catch-all arm resets the stack when the poll had failed.
LinkOther_ErrResets ==
    /\ pc = "match_link"
    /\ LinkArm(link, network_was_reset) = "other"
    /\ pc' = IF poll_ret = "Err" THEN "reset" ELSE "ret"
    /\ UNCHANGED <<network_was_reset, now, poll_arg, poll_ret, result, link,
                   entry_flag, calls, hist>>

\* Mutation: the catch-all arm polls the PHY again until the link is back.
LinkOther_WaitsForLink ==
    /\ pc = "match_link"
    /\ LinkArm(link, network_was_reset) = "other"
    /\ pc' = "link"
    /\ UNCHANGED <<network_was_reset, now, poll_arg, poll_ret, result, link,
                   entry_flag, calls, hist>>

\* Mutation: the catch-all arm clears the flag.
LinkOther_Rearms ==
    /\ pc = "match_link"
    /\ LinkArm(link, network_was_reset) = "other"
    /\ network_was_reset' = FALSE
    /\ pc' = "ret"
    /\ UNCHANGED <<now, poll_arg, poll_ret, result, link, entry_flag, calls, hist>>

\* _ => {} (line 39).
LinkOther ==
    /\ pc = "match_link"
    /\ LinkArm(link, network_was_reset) = "other"
    /\ pc' = "ret"
    /\ UNCHANGED <<network_was_reset, now, poll_arg, poll_ret, result, link,
                   entry_flag, calls, hist>>

\* Mutation: issuing the reset overwrites the status already computed.
HandleLinkReset_SetsStatus ==
    /\ pc = "reset"
    /\ calls' = Append(calls, "handle_link_reset")
    /\ result' = "Updated"
    /\ pc' = "ret"
    /\ UNCHANGED <<network_was_reset, now, poll_arg, poll_ret, link, entry_flag, hist>>

\* self.stack.handle_link_reset(); } (line 37).
HandleLinkReset ==
    /\ pc = "reset"
    /\ calls' = Append(calls, "handle_link_reset")
    /\ pc' = "ret"
    /\ UNCHANGED <<network_was_reset, now, poll_arg, poll_ret, result, link,
                   entry_flag, hist>>

\* result (line 42): update() returns; its locals go out of scope.
Return ==
    /\ pc = "ret"
    /\ hist' = Append(hist, [poll   |-> poll_ret,
                             link   |-> link,
                             flag0  |-> entry_flag,
                             flag1  |-> network_was_reset,
                             calls  |-> calls,
                             status |-> result])
    /\ pc' = "idle"
    /\ now' = 0
    /\ poll_arg' = 0
    /\ poll_ret' = "none"
    /\ result' = "none"
    /\ link' = TRUE
    /\ entry_flag' = FALSE
    /\ calls' = <<>>
    /\ UNCHANGED network_was_reset

Next ==
    \/ Begin
    \/ CurrentMs
    \/ StackPoll
    \/ MatchPoll
    \/ PollLink
    \/ LinkPresent
    \/ LinkAbsentArmed
    \/ LinkOther
    \/ HandleLinkReset
    \/ Return

Spec == Init /\ [][Next]_vars

\* The statements of update() (lines 19-42): every step but the caller's call.
TickStep ==
    \/ CurrentMs
    \/ StackPoll
    \/ MatchPoll
    \/ PollLink
    \/ LinkPresent
    \/ LinkAbsentArmed
    \/ LinkOther
    \/ HandleLinkReset
    \/ Return

\* Number of update() calls explored where completion of a call is checked.
MaxFairTicks == 3

\* The caller invokes update() (line 17), at most MaxFairTicks times.
FairBegin ==
    /\ pc = "idle"
    /\ Len(hist) < MaxFairTicks
    /\ pc' = "clock"
    /\ entry_flag' = network_was_reset
    /\ calls' = <<>>
    /\ UNCHANGED <<network_was_reset, now, poll_arg, poll_ret, result, link, hist>>

FairNext ==
    \/ FairBegin
    \/ TickStep

\* update() is straight-line synchronous code on a single thread: once
\* called it keeps executing as long as a statement can run (each
\* collaborator call returns).  The caller is not obliged to call again.
FairSpec == Init /\ [][FairNext]_vars /\ WF_vars(TickStep)

----------------------------------------------------------------------------
(* Vocabulary of the properties: counts over the recorded calls.  hist     *)
(* changes only when update() returns, so what a property says of the      *)
(* completed calls is examined in the states between calls (pc = "idle").  *)

\* How often x occurs in the sequence s.
Count(s, x) == Cardinality({k \in DOMAIN s : s[k] = x})

\* Number of handle_link_reset calls made by the completed call h.
Resets(h) == Count(h.calls, "handle_link_reset")

\* Tick i opens an absent-streak: absent, and first tick or preceded by present.
StreakStart(i) == ~hist[i].link /\ (i = 1 \/ hist[i - 1].link)

\* The link observations of the completed calls, in order.
Observations == [i \in DOMAIN hist |-> hist[i].link]

\* The indices of the completed calls that issued a reset.
ResetTicks == {i \in DOMAIN hist : Resets(hist[i]) >= 1}

RECURSIVE SumResets(_)
\* Total number of resets issued by the first n completed calls.
SumResets(n) == IF n = 0 THEN 0 ELSE SumResets(n - 1) + Resets(hist[n])

----------------------------------------------------------------------------
\* C1: handle_link_reset is called during a tick if and only if that tick's
\* poll_link() returned false and network_was_reset was false when the tick
\* began; a tick observing 'present' never resets, and no tick resets more
\* than once (also while the tick is still running).
C1_ResetIffAbsentAndArmed ==
    /\ pc = "idle" =>
          \A i \in DOMAIN hist :
             /\ Resets(hist[i]) = (IF ~hist[i].link /\ ~hist[i].flag0 THEN 1 ELSE 0)
             /\ hist[i].link => Resets(hist[i]) = 0
    /\ Count(calls, "handle_link_reset") <= 1
    /\ Count(calls, "handle_link_reset") = 1 =>
          /\ Count(calls, "poll_link") = 1
          /\ ~link
          /\ ~entry_flag
    /\ pc = "ret" =>
          Count(calls, "handle_link_reset") = (IF ~link /\ ~entry_flag THEN 1 ELSE 0)

\* A run in which all three cases happened: a reset, an absent tick that
\* began Fired and issued none, and a present tick.
C1_Witness ==
    /\ \E i \in DOMAIN hist : Resets(hist[i]) = 1 /\ ~hist[i].link /\ ~hist[i].flag0
    /\ \E i \in DOMAIN hist : Resets(hist[i]) = 0 /\ ~hist[i].link /\ hist[i].flag0
    /\ \E i \in DOMAIN hist : Resets(hist[i]) = 0 /\ hist[i].link

\* C2: every maximal run of consecutive 'absent' observations yields exactly
\* one reset, issued on the first tick of the run; the total number of
\* resets equals the number of runs started; observations [present, absent,
\* absent, absent, present, absent] yield exactly two resets, on the second
\* and the sixth tick.
C2_OneResetPerAbsentStreak ==
    pc = "idle" =>
        /\ \A i \in DOMAIN hist :
              Resets(hist[i]) = (IF StreakStart(i) THEN 1 ELSE 0)
        /\ SumResets(Len(hist)) = Cardinality({i \in DOMAIN hist : StreakStart(i)})
        /\ Observations = <<TRUE, FALSE, FALSE, FALSE, TRUE, FALSE>> =>
              /\ ResetTicks = {2, 6}
              /\ SumResets(Len(hist)) = 2

\* The six observations of the example have been made.
C2_Witness ==
    /\ pc = "idle"
    /\ Observations = <<TRUE, FALSE, FALSE, FALSE, TRUE, FALSE>>
    /\ SumResets(Len(hist)) = 2

\* First tick of the absent-streak that is running after the last completed
\* call (only used when the last observation was 'absent').
CurrentStreakStart ==
    CHOOSE s \in DOMAIN hist :
        /\ \A k \in s..Len(hist) : ~hist[k].link
        /\ s = 1 \/ hist[s - 1].link

\* A reset has been issued since the link last went absent.
ResetSinceAbsent ==
    \E k \in CurrentStreakStart..Len(hist) : Resets(hist[k]) >= 1

\* C3: between ticks, network_was_reset is true if and only if the most
\* recent observation was 'absent' and a reset has been issued since the
\* link last went absent; it is false after a 'present' observation and
\* before any tick has run.
C3_FlagMeansResetIssued ==
    pc = "idle" =>
        /\ Len(hist) = 0 => ~network_was_reset
        /\ Len(hist) > 0 /\ hist[Len(hist)].link => ~network_was_reset
        /\ Len(hist) > 0 /\ ~hist[Len(hist)].link =>
              (network_was_reset <=> ResetSinceAbsent)
        /\ network_was_reset =>
              Len(hist) > 0 /\ ~hist[Len(hist)].link /\ ResetSinceAbsent

\* Between ticks with the flag true, in an absent-streak that has lasted
\* several ticks, after an earlier streak had been ended by 'present'.
C3_Witness ==
    /\ pc = "idle"
    /\ network_was_reset
    /\ Len(hist) >= 4
    /\ ~hist[Len(hist)].link
    /\ CurrentStreakStart < Len(hist)
    /\ CurrentStreakStart > 2
    /\ \E k \in 1..(CurrentStreakStart - 1) : ~hist[k].link

\* C4: the status update() returns is a function of the tick's stack.poll
\* outcome only: Ok(true) gives Updated, Ok(false) gives NoChange, Err gives
\* Updated; no other value is returned.
C4_StatusMapping ==
    /\ pc = "idle" =>
          \A i \in DOMAIN hist :
             /\ hist[i].status \in UpdateState
             /\ hist[i].poll = "OkTrue"  => hist[i].status = "Updated"
             /\ hist[i].poll = "OkFalse" => hist[i].status = "NoChange"
             /\ hist[i].poll = "Err"     => hist[i].status = "Updated"
    /\ pc = "ret" =>
          /\ result \in UpdateState
          /\ result = "NoChange" <=> poll_ret = "OkFalse"

\* A run in which each of the three poll outcomes was returned at least once.
C4_Witness ==
    \A o \in PollOutcomes : \E i \in DOMAIN hist : hist[i].poll = o

\* C5: the returned status is unaffected by the link observation, the flag
\* and the issuing of a reset: two ticks with the same poll outcome return
\* the same status whatever their link observation and flag; a tick with
\* poll Ok(false), link absent and flag Armed returns NoChange and issues a
\* reset.
C5_StatusIgnoresLink ==
    pc = "idle" =>
        /\ \A i, j \in DOMAIN hist :
              hist[i].poll = hist[j].poll => hist[i].status = hist[j].status
        /\ \A i \in DOMAIN hist :
              hist[i].poll = "OkFalse" /\ ~hist[i].link /\ ~hist[i].flag0 =>
                  hist[i].status = "NoChange" /\ Resets(hist[i]) = 1

\* Two ticks with the same poll outcome Ok(false), one issuing a reset and
\* one observing 'present', and a third that began Fired.
C5_Witness ==
    \E i, j, k \in DOMAIN hist :
        /\ hist[i].poll = "OkFalse" /\ ~hist[i].link /\ ~hist[i].flag0
        /\ Resets(hist[i]) = 1
        /\ hist[j].poll = "OkFalse" /\ hist[j].link
        /\ hist[k].poll = "OkFalse" /\ ~hist[k].link /\ hist[k].flag0

\* Rank of a collaborator call in the order update() makes them.
Rank(op) ==
    CASE op = "current_ms"        -> 1
      [] op = "poll"              -> 2
      [] op = "log"               -> 3
      [] op = "poll_link"         -> 4
      [] op = "handle_link_reset" -> 5

\* The calls of s are in the order of update(): strictly increasing rank,
\* the stack poll only after the clock read, the PHY query only after the
\* stack poll, the reset only after both.
InOrder(s) ==
    /\ \A a, b \in DOMAIN s : a < b => Rank(s[a]) < Rank(s[b])
    /\ Count(s, "poll") = 1 => Count(s, "current_ms") = 1
    /\ Count(s, "poll_link") = 1 => Count(s, "poll") = 1
    /\ Count(s, "handle_link_reset") = 1 =>
          /\ Count(s, "poll") = 1
          /\ Count(s, "poll_link") = 1
          /\ s[Len(s)] = "handle_link_reset"

\* C6: within each tick the time source is read, then stack.poll is called
\* with that timestamp, then phy.poll_link is queried, and
\* handle_link_reset, if issued, is called last; a reset never precedes the
\* stack poll or the PHY query of the same tick.
C6_CallOrder ==
    /\ InOrder(calls)
    /\ pc = "idle" => \A i \in DOMAIN hist : InOrder(hist[i].calls)
    /\ Count(calls, "poll") = 1 => poll_arg = now
    /\ pc = "reset" => Count(calls, "poll") = 1 /\ Count(calls, "poll_link") = 1
    /\ pc = "ret" =>
          /\ calls[1] = "current_ms"
          /\ calls[2] = "poll"
          /\ Count(calls, "poll_link") = 1

\* A tick about to return after it read a non-zero time, logged a poll
\* error, queried the PHY and issued a reset.
C6_Witness ==
    /\ pc = "ret"
    /\ now = 1
    /\ poll_arg = 1
    /\ calls = <<"current_ms", "poll", "log", "poll_link", "handle_link_reset">>

\* C7: after any tick whose observation is 'present' the flag is false
\* whatever it was before the tick, and the next tick observing 'absent'
\* issues exactly one reset.
C7_PresentRearms ==
    /\ pc = "idle" =>
          \A i \in DOMAIN hist :
             hist[i].link =>
                 /\ ~hist[i].flag1
                 /\ (i < Len(hist) /\ ~hist[i + 1].link) => Resets(hist[i + 1]) = 1
    /\ pc = "idle" /\ Len(hist) > 0 /\ hist[Len(hist)].link => ~network_was_reset

\* A 'present' tick that began Fired, followed by an 'absent' tick.
C7_Witness ==
    \E i \in DOMAIN hist :
        /\ hist[i].link
        /\ hist[i].flag0
        /\ i < Len(hist)
        /\ ~hist[i + 1].link
        /\ Resets(hist[i + 1]) = 1

\* C8: right after NetworkProcessor::new the flag is false, so a first tick
\* observing 'absent' issues exactly one reset and leaves the flag true,
\* for any poll outcome of that tick.
C8_FirstAbsentTickResets ==
    /\ Len(hist) = 0 /\ pc = "idle" => ~network_was_reset
    /\ Len(hist) = 0 /\ pc # "idle" => ~entry_flag
    /\ Len(hist) >= 1 =>
          /\ ~hist[1].flag0
          /\ ~hist[1].link => Resets(hist[1]) = 1 /\ hist[1].flag1

\* The first tick observed 'absent' after its poll had failed.
C8_Witness ==
    /\ Len(hist) >= 1
    /\ ~hist[1].link
    /\ hist[1].poll = "Err"
    /\ Resets(hist[1]) = 1

\* C9: a tick whose poll returns an error emits exactly one log entry,
\* still queries the PHY and runs the debounce step, and returns a status
\* (the error is not handed to the caller); a tick whose poll succeeds
\* emits no log entry.
C9_PollErrorHandledLocally ==
    /\ pc = "idle" =>
          \A i \in DOMAIN hist :
             /\ hist[i].poll = "Err" =>
                   /\ Count(hist[i].calls, "log") = 1
                   /\ Count(hist[i].calls, "poll_link") = 1
                   /\ hist[i].flag1 = (~hist[i].link)
                   /\ Resets(hist[i]) = (IF ~hist[i].link /\ ~hist[i].flag0 THEN 1 ELSE 0)
                   /\ hist[i].status \in UpdateState
             /\ hist[i].poll # "Err" => Count(hist[i].calls, "log") = 0
    /\ pc \in {"link", "match_link", "reset", "ret"} =>
          Count(calls, "log") = (IF poll_ret = "Err" THEN 1 ELSE 0)

\* A failed poll on a tick that went on to reset, one on a tick that
\* observed 'present', and a successful poll.
C9_Witness ==
    /\ \E i \in DOMAIN hist : hist[i].poll = "Err" /\ Resets(hist[i]) = 1
    /\ \E i \in DOMAIN hist : hist[i].poll = "Err" /\ hist[i].link
    /\ \E i \in DOMAIN hist : hist[i].poll # "Err"

\* C10: the poll outcome has no influence on the debounce step: whether a
\* reset is issued and the flag after the tick are determined by the flag
\* before the tick and the link observation alone, so a poll error by
\* itself never triggers a reset and never changes the flag.
C10_DebounceIgnoresPoll ==
    /\ pc = "idle" =>
          /\ \A i, j \in DOMAIN hist :
                hist[i].flag0 = hist[j].flag0 /\ hist[i].link = hist[j].link =>
                    /\ Resets(hist[i]) = Resets(hist[j])
                    /\ hist[i].flag1 = hist[j].flag1
          /\ \A i \in DOMAIN hist :
                hist[i].poll = "Err" /\ (hist[i].link \/ hist[i].flag0) =>
                    Resets(hist[i]) = 0
          /\ \A i \in DOMAIN hist :
                hist[i].poll = "Err" /\ hist[i].link = (~hist[i].flag0) =>
                    hist[i].flag1 = hist[i].flag0
    /\ pc \in {"match_poll", "link"} => network_was_reset = entry_flag

\* Two ticks that began Fired and observed 'absent', one after a failed
\* poll and one after a successful poll.
C10_Witness ==
    \E i, j \in DOMAIN hist :
        /\ hist[i].poll = "Err" /\ hist[j].poll = "OkTrue"
        /\ hist[i].flag0 /\ hist[j].flag0
        /\ ~hist[i].link /\ ~hist[j].link

\* C11: every tick, in every debounce state and for every poll outcome
\* (error included), reads the time source exactly once, calls stack.poll
\* exactly once and calls phy.poll_link exactly once; a failed poll is not
\* retried within the tick.
C11_EachCollaboratorOnce ==
    /\ pc = "idle" =>
          \A i \in DOMAIN hist :
             /\ Count(hist[i].calls, "current_ms") = 1
             /\ Count(hist[i].calls, "poll") = 1
             /\ Count(hist[i].calls, "poll_link") = 1
    /\ Count(calls, "current_ms") <= 1
    /\ Count(calls, "poll") <= 1
    /\ Count(calls, "poll_link") <= 1
    /\ pc = "ret" =>
          /\ Count(calls, "current_ms") = 1
          /\ Count(calls, "poll") = 1
          /\ Count(calls, "poll_link") = 1

\* A run with a failed poll on a tick that began Fired and one on a tick
\* that began Armed, and a successful poll.
C11_Witness ==
    /\ pc = "idle"
    /\ \E i \in DOMAIN hist : hist[i].poll = "Err" /\ hist[i].flag0
    /\ \E i \in DOMAIN hist : hist[i].poll = "Err" /\ ~hist[i].flag0
    /\ \E i \in DOMAIN hist : hist[i].poll = "OkFalse"

\* How far update() has got: the positions in program order.
Progress(p) ==
    CASE p = "idle"       -> 0
      [] p = "clock"      -> 1
      [] p = "poll"       -> 2
      [] p = "match_poll" -> 3
      [] p = "link"       -> 4
      [] p = "match_link" -> 5
      [] p = "reset"      -> 6
      [] p = "ret"        -> 7

\* C12: assuming each collaborator call returns, every tick started from
\* any reachable state runs to completion and returns exactly one status
\* value: the tick has no position in which it waits, every step moves
\* strictly forward (no internal loop), the only way out is the return,
\* which hands back one status (no failure outcome), and a started tick
\* eventually returns.
C12_TickRunsToCompletion ==
    /\ [](pc # "idle" => ENABLED TickStep)
    /\ [][pc # "idle" /\ pc' # "idle" => Progress(pc') > Progress(pc)]_vars
    /\ [][pc # "idle" /\ pc' = "idle" =>
            /\ pc = "ret"
            /\ hist' = Append(hist, hist'[Len(hist')])
            /\ hist'[Len(hist')].status \in UpdateState]_vars
    /\ [][hist' # hist => pc = "ret" /\ pc' = "idle"]_vars
    /\ (pc # "idle") ~> (pc = "idle")

\* Ticks begun Armed and begun Fired have both returned, one of them after
\* a failed poll and one after issuing a reset.
C12_Witness ==
    /\ pc = "idle"
    /\ Len(hist) >= 3
    /\ \E i, j \in DOMAIN hist :
          /\ hist[i].flag0 /\ ~hist[j].flag0
          /\ hist[i].poll = "Err"
          /\ Resets(hist[j]) = 1
          /\ hist[i].status \in UpdateState /\ hist[j].status \in UpdateState

\* The inputs fed to the processor so far: (poll outcome, link) per tick.
Inputs == [i \in DOMAIN hist |-> [poll |-> hist[i].poll, link |-> hist[i].link]]

\* What the processor did per tick: the status returned, and whether it reset.
Outputs ==
    [i \in DOMAIN hist |-> [status |-> hist[i].status,
                            reset  |-> Resets(hist[i]) = 1,
                            resets |-> Resets(hist[i])]]

\* History-free reference: from the input sequence alone, without a flag.
Reference(in) ==
    [i \in DOMAIN in |->
        [status |-> IF in[i].poll = "OkFalse" THEN "NoChange" ELSE "Updated",
         reset  |-> ~in[i].link /\ (i = 1 \/ in[i - 1].link),
         resets |-> IF ~in[i].link /\ (i = 1 \/ in[i - 1].link) THEN 1 ELSE 0]]

\* The scenario of the specification: five (poll outcome, link) inputs.
Scenario ==
    <<[poll |-> "OkTrue",  link |-> TRUE],
      [poll |-> "OkFalse", link |-> FALSE],
      [poll |-> "OkFalse", link |-> FALSE],
      [poll |-> "OkTrue",  link |-> TRUE],
      [poll |-> "OkFalse", link |-> FALSE]>>

\* C13: a freshly constructed processor behaves as the history-free
\* reference: for every input sequence the reset at tick i is issued iff
\* link_i is absent and (i is the first tick or link_{i-1} was present), and
\* the status at tick i is the mapping of poll outcome i alone; the scenario
\* inputs give statuses [Updated, NoChange, NoChange, Updated, NoChange]
\* with resets at ticks 2 and 5 only.
C13_EquivalentToReference ==
    pc = "idle" =>
        /\ Outputs = Reference(Inputs)
        /\ Inputs = Scenario =>
              /\ [i \in DOMAIN hist |-> hist[i].status] =
                    <<"Updated", "NoChange", "NoChange", "Updated", "NoChange">>
              /\ ResetTicks = {2, 5}

\* The five scenario ticks have been fed to a fresh processor.
C13_Witness ==
    /\ pc = "idle"
    /\ Inputs = Scenario
    /\ Len(Outputs) = 5

\* The debounce machine of the specification: state and observation to
\* next state and number of resets (Armed = flag false, Fired = flag true).
Machine(flag, l) ==
    CASE ~flag /\ ~l -> [flag |-> TRUE,  resets |-> 1]
      [] flag  /\ ~l -> [flag |-> TRUE,  resets |-> 0]
      [] ~flag /\ l  -> [flag |-> FALSE, resets |-> 0]
      [] flag  /\ l  -> [flag |-> FALSE, resets |-> 0]

\* C14: the flag follows exactly the four-transition machine: Armed+absent
\* -> Fired with a reset, Fired+absent -> Fired without reset, Armed+present
\* -> Armed without reset, Fired+present -> Armed without reset; the flag
\* changes nowhere else (each tick begins with the flag the previous tick
\* left, the first with the constructed one, and the flag is untouched
\* until the link has been matched); no state is terminal: in Armed and in
\* Fired the PHY query accepts both observations and one arm of the match
\* takes each of them.
C14_FourTransitionMachine ==
    /\ pc = "idle" =>
          \A i \in DOMAIN hist :
             /\ [flag |-> hist[i].flag1, resets |-> Resets(hist[i])]
                   = Machine(hist[i].flag0, hist[i].link)
             /\ hist[i].flag0 = (IF i = 1 THEN FALSE ELSE hist[i - 1].flag1)
    /\ pc = "idle" /\ Len(hist) > 0 => network_was_reset = hist[Len(hist)].flag1
    /\ pc \in {"clock", "poll", "match_poll", "link", "match_link"} =>
          network_was_reset = entry_flag
    /\ pc \in {"reset", "ret"} =>
          network_was_reset = Machine(entry_flag, link).flag
    /\ pc = "link" =>
          /\ ENABLED (PollLink /\ link')
          /\ ENABLED (PollLink /\ ~link')
    /\ pc = "match_link" => ENABLED (LinkPresent \/ LinkAbsentArmed \/ LinkOther)
    /\ pc = "match_link" /\ network_was_reset /\ link => ENABLED LinkPresent
    /\ pc = "match_link" /\ network_was_reset /\ ~link => ENABLED LinkOther

\* All four transitions have been taken in one run.
C14_Witness ==
    /\ pc = "idle"
    /\ \A f, l \in BOOLEAN :
          \E i \in DOMAIN hist : hist[i].flag0 = f /\ hist[i].link = l

\* C15: on the Armed+absent path the flag is set before handle_link_reset
\* is invoked: when the stack's reset operation is about to be called, and
\* from then to the end of the tick, network_was_reset is already true.
C15_FlagSetBeforeReset ==
    /\ pc = "reset" =>
          /\ network_was_reset
          /\ ~entry_flag
          /\ ~link
          /\ Count(calls, "handle_link_reset") = 0
    /\ Count(calls, "handle_link_reset") >= 1 => network_was_reset

\* update() is about to call handle_link_reset after a failed poll, on a
\* tick that began Armed after an earlier streak.
C15_Witness ==
    /\ pc = "reset"
    /\ network_was_reset
    /\ ~entry_flag
    /\ poll_ret = "Err"
    /\ Len(hist) >= 2

\* The first completed call that observed 'absent' (only used when there is one).
FirstAbsent == CHOOSE s \in DOMAIN hist : ~hist[s].link /\ \A k \in 1..(s - 1) : hist[k].link

\* C16: between any two resets of a run there is a tick that observed
\* 'present'; a link that stays absent from its first absent tick on
\* receives exactly one reset in total, however long the run.
C16_PresentBetweenResets ==
    pc = "idle" =>
        /\ \A i, j \in ResetTicks :
              i < j => \E k \in (i + 1)..(j - 1) : hist[k].link
        /\ (/\ \E s \in DOMAIN hist : ~hist[s].link
            /\ \A k \in FirstAbsent..Len(hist) : ~hist[k].link) =>
              /\ ResetTicks = {FirstAbsent}
              /\ SumResets(Len(hist)) = 1

\* Two resets in one run, the first followed by further absent ticks and
\* then a 'present' tick before the second.
C16_Witness ==
    /\ pc = "idle"
    /\ \E i, j \in ResetTicks :
          /\ i + 2 < j
          /\ ~hist[i + 1].link
          /\ hist[j - 1].link

====
